---- MODULE Spec2Model ----
(***************************************************************************)
(* Stock and price synchronisation of a watch retailer with two            *)
(* marketplaces: seller.py (Ozon) and market.py (Yandex Market).           *)
(*                                                                         *)
(* Texts that the code takes apart (quantity and price cells of the        *)
(* supplier sheet) are sequences of one-character strings; offer ids and   *)
(* supplier codes are only ever compared, so they stay TLA+ strings.       *)
(***************************************************************************)
EXTENDS Integers, Sequences, FiniteSets, TLC

VARIABLES
    pc,              \* position of the running routine
    market,          \* "ozon" (seller.main) or "yandex" (market.main)
    campaign,        \* "ozon", "fbs" or "dbs": the configuration being synced
    faulty,          \* TRUE when a request may fail
    catalog,         \* the marketplace catalog: a list of distinct offer ids
    sheet,           \* the supplier's file: the records download_stock parses
    watch_remnants,  \* the supplier records held by the program
    offer_ids,       \* the caller's offer-id working list
    listed,          \* the offer-id list as handed to the transform
    page,            \* get_offer_ids: the cursor (last_id / page token) sent next
    product_list,    \* get_offer_ids: the items accumulated so far
    stocks,          \* the stock records built
    prices,          \* the price records built
    chunks,          \* the chunks of the list being uploaded
    sent,            \* number of chunks of `chunks` uploaded so far
    log,             \* every request issued, in order
    steps,           \* the steps completed, in order
    failed,          \* TRUE once a request or a transform has raised
    reported,        \* what the exception handler printed ("" when nothing)
    escaped,         \* TRUE when an exception left main
    lst,             \* divide: the list
    n,               \* divide: the chunk size
    price_text,      \* price_conversion: the argument
    converted,       \* price_conversion(price_text)
    reconverted      \* price_conversion(converted)

vars == << pc, market, campaign, faulty, catalog, sheet, watch_remnants, offer_ids,
           listed, page, product_list, stocks, prices, chunks, sent, log,
           steps, failed, reported, escaped, lst, n, price_text, converted,
           reconverted >>

-----------------------------------------------------------------------------
(* Bounds of the model.                                                     *)

\* longest supplier sheet
MaxRemnants == 2
\* largest marketplace catalog
MaxOffers == 3
\* `limit` of a listing request (1000 at seller.py:37, 200 at market.py:34),
\* scaled to the catalogs of the model
PageLimit == 2
\* chunk sizes of the uploads (100 and 900 at seller.py:236,240; 2000 and 500
\* at market.py:264,221), scaled to the lists of the model
OzonStockChunk == 2
OzonPriceChunk == 3
MarketStockChunk == 2
MarketPriceChunk == 1
\* divide on its own: longest list and largest chunk size tried
MaxListLen == 9
MaxChunk == 5
\* price_conversion on its own: longest price text tried
MaxPriceLen == 4

-----------------------------------------------------------------------------
(* Texts.                                                                   *)

Digits == {"0", "1", "2", "3", "4", "5", "6", "7", "8", "9"}

DigitVal(c) ==
    CASE c = "0" -> 0 [] c = "1" -> 1 [] c = "2" -> 2 [] c = "3" -> 3
      [] c = "4" -> 4 [] c = "5" -> 5 [] c = "6" -> 6 [] c = "7" -> 7
      [] c = "8" -> 8 [] c = "9" -> 9

Min(a, b) == IF a < b THEN a ELSE b

\* sequences over S of length 0..k
SeqsUpTo(S, k) == UNION { [1..m -> S] : m \in 0..k }

IsInjective(s) == \A i, j \in 1..Len(s) : s[i] = s[j] => i = j

\* x in lst, for a Python list
Member(x, s) == \E i \in 1..Len(s) : s[i] = x

\* Python's lst[i:j] for 0 <= i <= j (both clipped to len(lst))
Slice(s, i, j) == SubSeq(s, Min(i, Len(s)) + 1, Min(j, Len(s)))

RECURSIVE DecimalValue(_, _)
DecimalValue(text, acc) ==
    IF text = << >> THEN acc
    ELSE DecimalValue(Tail(text), 10 * acc + DigitVal(Head(text)))

\* int(text) for a text over digits and other non-blank, non-sign characters:
\* the value of a non-empty run of digits, ValueError for anything else
PyInt(text) ==
    IF text # << >> /\ \A i \in 1..Len(text) : text[i] \in Digits
    THEN [ok |-> TRUE, val |-> DecimalValue(text, 0)]
    ELSE [ok |-> FALSE, val |-> 0]

-----------------------------------------------------------------------------
(* seller.price_conversion: re.sub("[^0-9]", "", price.split(".")[0])       *)

RECURSIVE SplitDotHead(_)
\* price.split(".")[0]: the text before the first "."
SplitDotHead(text) ==
    IF text = << >> THEN << >>
    ELSE IF Head(text) = "." THEN << >>
    ELSE << Head(text) >> \o SplitDotHead(Tail(text))

RECURSIVE SubNonDigits(_)
\* re.sub("[^0-9]", "", text): every character outside 0-9 is deleted
SubNonDigits(text) ==
    IF text = << >> THEN << >>
    ELSE IF Head(text) \in Digits
         THEN << Head(text) >> \o SubNonDigits(Tail(text))
         ELSE SubNonDigits(Tail(text))

\* a price_conversion that forgets to cut the text at the decimal point
price_conversion_whole(text) == SubNonDigits(text)

price_conversion(text) == SubNonDigits(SplitDotHead(text))

-----------------------------------------------------------------------------
(* seller.divide: for i in range(0, len(lst), n): yield lst[i : i + n]      *)

RECURSIVE PyRange(_, _, _)
\* range(start, stop, step) for step >= 1
PyRange(start, stop, step) ==
    IF start >= stop THEN << >>
    ELSE << start >> \o PyRange(start + step, stop, step)

\* a divide whose slices are one element short
divide_short(l, k) ==
    LET starts == PyRange(0, Len(l), k)
    IN  [c \in 1..Len(starts) |-> Slice(l, starts[c], starts[c] + k - 1)]

divide(l, k) ==
    LET starts == PyRange(0, Len(l), k)
    IN  [c \in 1..Len(starts) |-> Slice(l, starts[c], starts[c] + k)]

-----------------------------------------------------------------------------
(* create_stocks, seller.py:146-163 and market.py:119-171.  The working     *)
(* list is mutated in place, so the operators return it with the result:    *)
(* [stocks, offer_ids, raised]; raised = TRUE when int() threw ValueError,  *)
(* in which case nothing is returned and offer_ids is the list as the       *)
(* exception left it.                                                       *)

\* list.remove(x) that removes nothing
RemoveNothing(s, x) == s

\* list.remove(x) for x in the list: the first occurrence is deleted
Remove(s, x) ==
    LET i == CHOOSE j \in 1..Len(s) :
                 s[j] = x /\ \A m \in 1..(j - 1) : s[m] # x
    IN  SubSeq(s, 1, i - 1) \o SubSeq(s, i + 1, Len(s))

\* a translation that passes "1" through as one unit
seller_stock_literal(quantity) ==
    IF quantity = << ">", "1", "0" >> THEN [ok |-> TRUE, val |-> 100]
    ELSE PyInt(quantity)

\* seller.py:151-157
seller_stock(quantity) ==
    IF quantity = << ">", "1", "0" >> THEN [ok |-> TRUE, val |-> 100]
    ELSE IF quantity = << "1" >> THEN [ok |-> TRUE, val |-> 0]
    ELSE PyInt(quantity)

\* market.py:135-141
market_stock(quantity) ==
    IF quantity = << ">", "1", "0" >> THEN [ok |-> TRUE, val |-> 100]
    ELSE IF quantity = << "1" >> THEN [ok |-> TRUE, val |-> 0]
    ELSE PyInt(quantity)

RECURSIVE seller_match_loop(_, _, _)
\* seller.py:149-159
seller_match_loop(remnants, ids, acc) ==
    IF remnants = << >>
    THEN [stocks |-> acc, offer_ids |-> ids, raised |-> FALSE]
    ELSE LET watch == Head(remnants)
         IN  IF Member(watch.code, ids)
             THEN LET stock == seller_stock(watch.quantity)
                  IN  IF ~stock.ok
                      THEN [stocks |-> acc, offer_ids |-> ids, raised |-> TRUE]
                      ELSE seller_match_loop(
                               Tail(remnants),
                               Remove(ids, watch.code),
                               Append(acc, [offer_id |-> watch.code,
                                            stock |-> stock.val]))
             ELSE seller_match_loop(Tail(remnants), ids, acc)

\* a zero-fill that emits nothing
seller_zero_fill_none(ids) == << >>

\* seller.py:161-162
seller_zero_fill(ids) ==
    [i \in 1..Len(ids) |-> [offer_id |-> ids[i], stock |-> 0]]

\* a create_stocks that puts the zero-count records in front
seller_create_stocks_zero_first(remnants, ids) ==
    LET r == seller_match_loop(remnants, ids, << >>)
    IN  IF r.raised THEN r
        ELSE [r EXCEPT !.stocks = seller_zero_fill(r.offer_ids) \o r.stocks]

seller_create_stocks(remnants, ids) ==
    LET r == seller_match_loop(remnants, ids, << >>)
    IN  IF r.raised THEN r
        ELSE [r EXCEPT !.stocks = r.stocks \o seller_zero_fill(r.offer_ids)]

\* market.py:142-154 and 158-170: one record of the Yandex payload
MarketStockRecord(sku, warehouse_id, count, date) ==
    [sku |-> sku, warehouseId |-> warehouse_id,
     items |-> << [count |-> count, type |-> "FIT", updatedAt |-> date] >>]

RECURSIVE market_match_loop(_, _, _, _, _)
\* market.py:133-155
market_match_loop(remnants, ids, warehouse_id, date, acc) ==
    IF remnants = << >>
    THEN [stocks |-> acc, offer_ids |-> ids, raised |-> FALSE]
    ELSE LET watch == Head(remnants)
         IN  IF Member(watch.code, ids)
             THEN LET stock == market_stock(watch.quantity)
                  IN  IF ~stock.ok
                      THEN [stocks |-> acc, offer_ids |-> ids, raised |-> TRUE]
                      ELSE market_match_loop(
                               Tail(remnants),
                               Remove(ids, watch.code),
                               warehouse_id, date,
                               Append(acc, MarketStockRecord(
                                   watch.code, warehouse_id, stock.val, date)))
             ELSE market_match_loop(Tail(remnants), ids, warehouse_id, date, acc)

\* market.py:157-170
market_zero_fill(ids, warehouse_id, date) ==
    [i \in 1..Len(ids) |-> MarketStockRecord(ids[i], warehouse_id, 0, date)]

market_create_stocks(remnants, ids, warehouse_id, date) ==
    LET r == market_match_loop(remnants, ids, warehouse_id, date, << >>)
    IN  IF r.raised THEN r
        ELSE [r EXCEPT !.stocks =
                 r.stocks \o market_zero_fill(r.offer_ids, warehouse_id, date)]

-----------------------------------------------------------------------------
(* create_prices, seller.py:166-178 and market.py:174-203: [prices, raised] *)

RECURSIVE seller_create_prices(_, _)
seller_create_prices(remnants, ids) ==
    IF remnants = << >> THEN [prices |-> << >>, raised |-> FALSE]
    ELSE LET watch == Head(remnants)
             rest  == seller_create_prices(Tail(remnants), ids)
         IN  IF Member(watch.code, ids)
             THEN [rest EXCEPT !.prices =
                      << [auto_action_enabled |-> "UNKNOWN",
                          currency_code |-> "RUB",
                          offer_id |-> watch.code,
                          old_price |-> "0",
                          price |-> price_conversion(watch.price)] >> \o @]
             ELSE rest

RECURSIVE market_prices_loop(_, _, _)
\* market.py:188-202; int() of a text without digits throws ValueError
market_prices_loop(remnants, ids, acc) ==
    IF remnants = << >> THEN [prices |-> acc, raised |-> FALSE]
    ELSE LET watch == Head(remnants)
         IN  IF Member(watch.code, ids)
             THEN LET value == PyInt(price_conversion(watch.price))
                  IN  IF ~value.ok
                      THEN [prices |-> acc, raised |-> TRUE]
                      ELSE market_prices_loop(
                               Tail(remnants), ids,
                               Append(acc, [id |-> watch.code,
                                            price |-> [value |-> value.val,
                                                       currencyId |-> "RUR"]]))
             ELSE market_prices_loop(Tail(remnants), ids, acc)

market_create_prices(remnants, ids) == market_prices_loop(remnants, ids, << >>)

-----------------------------------------------------------------------------
(* The listing endpoints as get_product_list sees them.  A cursor is the    *)
(* number of catalog entries already served; 0 stands for the empty text    *)
(* (the first request, and Yandex's absent nextPageToken).                  *)

\* seller.get_product_list: response_object.get("result")
seller_get_product_list(last_id) ==
    LET served == Slice(catalog, last_id, last_id + PageLimit)
    IN  [items   |-> [i \in 1..Len(served) |-> [offer_id |-> served[i]]],
         total   |-> Len(catalog),
         last_id |-> last_id + Len(served)]

\* market.get_product_list: response_object.get("result")
market_get_product_list(page_token) ==
    LET served == Slice(catalog, page_token, page_token + PageLimit)
        upto   == page_token + Len(served)
    IN  [offerMappingEntries |->
             [i \in 1..Len(served) |-> [offer |-> [shopSku |-> served[i]]]],
         paging |-> [nextPageToken |-> IF upto < Len(catalog) THEN upto ELSE 0]]

\* a cursor that is never advanced
seller_next_cursor_stale(some_prod) == 0

\* seller.py:63
seller_next_cursor(some_prod) == some_prod.last_id

\* market.py:110
market_next_cursor(some_prod) == some_prod.paging.nextPageToken

\* seller.py:66-69
seller_offer_ids(products) == [i \in 1..Len(products) |-> products[i].offer_id]

\* market.py:113-116
market_offer_ids(products) ==
    [i \in 1..Len(products) |-> products[i].offer.shopSku]

-----------------------------------------------------------------------------
(* What a request can do, and where an exception goes.                      *)

Failures == {"ReadTimeout", "ConnectionError", "HTTPError"}

Outcomes == IF faulty THEN {"ok"} \cup Failures ELSE {"ok"}

\* the except clauses, seller.py:242-247 and market.py:277-282: the message
\* printed (the two Russian messages are named by what they say)
Handler(exception) ==
    IF exception = "ReadTimeout" THEN "wait time exceeded"
    ELSE IF exception = "ConnectionError" THEN "connection error"
    ELSE "ERROR_2"

\* an except clause that runs the failed statement again
CaughtRetry(at) == at

\* an exception raised inside the try block ends the block: main returns
Caught(at) == "done"

Request(kind, arg, body, outcome) ==
    [campaign |-> campaign, kind |-> kind, arg |-> arg, body |-> body,
     outcome |-> outcome]

Step(name) == [campaign |-> campaign, step |-> name]

\* the list the items are accumulated in cannot outgrow this in the model
ListCap == MaxOffers + PageLimit

WarehouseOf(c) == IF c = "fbs" THEN "WAREHOUSE_FBS_ID" ELSE "WAREHOUSE_DBS_ID"

\* datetime.utcnow() of market.py:132, one instant per run
Date == "2024-01-01T00:00:00Z"

-----------------------------------------------------------------------------
(* Inputs.                                                                  *)

OfferIds == {"A1", "B2", "C3", "D4"}

\* catalogs: lists of distinct offer ids
Catalogs == { c \in SeqsUpTo(OfferIds, MaxOffers) : IsInjective(c) }

\* quantity cells: ">10", "1", a number, the empty cell
Gt10 == << ">", "1", "0" >>
PriceCell == << "5", "'", "9", "9", "0", ".", "0", "0", " ", "r", "." >>

\* the rows of a supplier file of a run of main: the ">10" token, a plain
\* number and an empty cell, which int() rejects (the transforms are run on
\* unknown codes and on every quantity cell under TransformSpec)
Rows ==
    { [code |-> "A1", quantity |-> Gt10, price |-> PriceCell],
      [code |-> "B2", quantity |-> << "5" >>, price |-> PriceCell],
      [code |-> "B2", quantity |-> << >>, price |-> PriceCell] }

Sheets == SeqsUpTo(Rows, MaxRemnants)

-----------------------------------------------------------------------------
(* main, seller.py:227-247 and market.py:250-282.                           *)

transform_vars == << lst, n, price_text, converted, reconverted >>

MainInit ==
    /\ market \in {"ozon", "yandex"}
    /\ campaign = (IF market = "ozon" THEN "ozon" ELSE "fbs")
    /\ pc = (IF market = "ozon" THEN "list" ELSE "download")
    /\ catalog \in Catalogs
    /\ sheet \in Sheets
    /\ watch_remnants = << >>
    /\ offer_ids = << >>
    /\ listed = << >>
    /\ page = 0
    /\ product_list = << >>
    /\ stocks = << >>
    /\ prices = << >>
    /\ chunks = << >>
    /\ sent = 0
    /\ log = << >>
    /\ steps = << >>
    /\ failed = FALSE
    /\ reported = ""
    /\ escaped = FALSE
    /\ lst = << >>
    /\ n = 1
    /\ price_text = << >>
    /\ converted = << >>
    /\ reconverted = << >>

Init == MainInit /\ faulty = TRUE

\* an exception raised inside the try block: the matching except clause
\* prints and main goes on after the try statement
Raise(at, exception) ==
    /\ failed' = TRUE
    /\ reported' = Handler(exception)
    /\ pc' = Caught(at)
    /\ UNCHANGED escaped

\* download_stock(): seller.py:233 (inside try), market.py:258 (before try)
Download ==
    /\ pc = "download"
    /\ \E outcome \in Outcomes :
         /\ log' = Append(log, Request("download", 0, << >>, outcome))
         /\ IF outcome = "ok"
            THEN /\ watch_remnants' = sheet
                 /\ pc' = (IF market = "ozon" THEN "create_stocks" ELSE "list")
                 /\ UNCHANGED << failed, reported, escaped >>
            ELSE /\ UNCHANGED watch_remnants
                 /\ IF market = "ozon"
                    THEN Raise("download", outcome)
                    ELSE /\ escaped' = TRUE
                         /\ failed' = TRUE
                         /\ pc' = "done"
                         /\ UNCHANGED reported
    /\ UNCHANGED << market, campaign, faulty, catalog, sheet, offer_ids, listed,
                    page, product_list, stocks, prices, chunks, sent, steps,
                    transform_vars >>

\* one turn of the loop of seller.get_offer_ids, seller.py:59-65, and on the
\* last turn its return into main (seller.py:66-69, 232)
SellerListPage ==
    /\ pc = "list" /\ market = "ozon"
    /\ Len(product_list) < ListCap
    /\ \E outcome \in Outcomes :
         /\ log' = Append(log, Request("list", page, << >>, outcome))
         /\ IF outcome = "ok"
            THEN LET some_prod == seller_get_product_list(page)
                     products  == product_list \o some_prod.items
                 IN  IF some_prod.total = Len(products)
                     THEN /\ offer_ids' = seller_offer_ids(products)
                          /\ listed' = seller_offer_ids(products)
                          /\ product_list' = << >>
                          /\ page' = 0
                          /\ steps' = Append(steps, Step("list"))
                          /\ pc' = "download"
                          /\ UNCHANGED << failed, reported, escaped >>
                     ELSE /\ product_list' = products
                          /\ page' = seller_next_cursor(some_prod)
                          /\ UNCHANGED << offer_ids, listed, steps, pc, failed,
                                          reported, escaped >>
            ELSE /\ Raise("list", outcome)
                 /\ UNCHANGED << offer_ids, listed, product_list, page, steps >>
    /\ UNCHANGED << market, campaign, faulty, catalog, sheet, watch_remnants,
                    stocks, prices, chunks, sent, transform_vars >>

\* one turn of the loop of market.get_offer_ids, market.py:107-112, and on the
\* last turn its return into main (market.py:113-116, 261, 270)
MarketListPage ==
    /\ pc = "list" /\ market = "yandex"
    /\ Len(product_list) < ListCap
    /\ \E outcome \in Outcomes :
         /\ log' = Append(log, Request("list", page, << >>, outcome))
         /\ IF outcome = "ok"
            THEN LET some_prod == market_get_product_list(page)
                     products  == product_list \o some_prod.offerMappingEntries
                     token     == market_next_cursor(some_prod)
                 IN  IF token = 0
                     THEN /\ offer_ids' = market_offer_ids(products)
                          /\ listed' = market_offer_ids(products)
                          /\ product_list' = << >>
                          /\ page' = 0
                          /\ steps' = Append(steps, Step("list"))
                          /\ pc' = "create_stocks"
                          /\ UNCHANGED << failed, reported, escaped >>
                     ELSE /\ product_list' = products
                          /\ page' = token
                          /\ UNCHANGED << offer_ids, listed, steps, pc, failed,
                                          reported, escaped >>
            ELSE /\ Raise("list", outcome)
                 /\ UNCHANGED << offer_ids, listed, product_list, page, steps >>
    /\ UNCHANGED << market, campaign, faulty, catalog, sheet, watch_remnants,
                    stocks, prices, chunks, sent, transform_vars >>

\* seller.py:235-236: create_stocks, then list(divide(stocks, 100))
SellerCreateStocks ==
    /\ pc = "create_stocks" /\ market = "ozon"
    /\ LET r == seller_create_stocks(watch_remnants, offer_ids)
       IN  /\ offer_ids' = r.offer_ids
           /\ IF r.raised
              THEN /\ Raise("create_stocks", "ValueError")
                   /\ UNCHANGED << stocks, chunks, sent, steps >>
              ELSE /\ stocks' = r.stocks
                   /\ chunks' = divide(r.stocks, OzonStockChunk)
                   /\ sent' = 0
                   /\ steps' = Append(steps, Step("create_stocks"))
                   /\ pc' = "upload_stocks"
                   /\ UNCHANGED << failed, reported, escaped >>
    /\ UNCHANGED << market, campaign, faulty, catalog, sheet, watch_remnants,
                    listed, page, product_list, prices, log, transform_vars >>

\* market.py:263-264 and 272-273
MarketCreateStocks ==
    /\ pc = "create_stocks" /\ market = "yandex"
    /\ LET r == market_create_stocks(watch_remnants, offer_ids,
                                     WarehouseOf(campaign), Date)
       IN  /\ offer_ids' = r.offer_ids
           /\ IF r.raised
              THEN /\ Raise("create_stocks", "ValueError")
                   /\ UNCHANGED << stocks, chunks, sent, steps >>
              ELSE /\ stocks' = r.stocks
                   /\ chunks' = divide(r.stocks, MarketStockChunk)
                   /\ sent' = 0
                   /\ steps' = Append(steps, Step("create_stocks"))
                   /\ pc' = "upload_stocks"
                   /\ UNCHANGED << failed, reported, escaped >>
    /\ UNCHANGED << market, campaign, faulty, catalog, sheet, watch_remnants,
                    listed, page, product_list, prices, log, transform_vars >>

\* one turn of an upload loop: update_stocks(some_stock, ...) at seller.py:237
\* and market.py:265,274, update_price(some_price, ...) at seller.py:241
UploadChunk ==
    /\ pc \in {"upload_stocks", "upload_prices"}
    /\ sent < Len(chunks)
    /\ \E outcome \in Outcomes :
         /\ log' = Append(log, Request(IF pc = "upload_stocks" THEN "stocks"
                                       ELSE "prices",
                                       sent + 1, chunks[sent + 1], outcome))
         /\ IF outcome = "ok"
            THEN /\ sent' = sent + 1
                 /\ UNCHANGED << pc, failed, reported, escaped >>
            ELSE /\ Raise(pc, outcome)
                 /\ UNCHANGED sent
    /\ UNCHANGED << market, campaign, faulty, catalog, sheet, watch_remnants,
                    offer_ids, listed, page, product_list, stocks, prices,
                    chunks, steps, transform_vars >>

\* an upload loop runs out of chunks: the statement after it is next
UploadEnd ==
    /\ pc \in {"upload_stocks", "upload_prices"}
    /\ sent = Len(chunks)
    /\ steps' = Append(steps, Step(pc))
    /\ pc' = (IF pc = "upload_prices" THEN "done"
              ELSE IF market = "ozon" THEN "create_prices"
              ELSE "call_upload_prices")
    /\ UNCHANGED << market, campaign, faulty, catalog, sheet, watch_remnants,
                    offer_ids, listed, page, product_list, stocks, prices,
                    chunks, sent, log, failed, reported, escaped,
                    transform_vars >>

\* seller.py:239-240: create_prices on the list create_stocks has worked on,
\* then list(divide(prices, 900))
SellerCreatePrices ==
    /\ pc = "create_prices" /\ market = "ozon"
    /\ LET r == seller_create_prices(watch_remnants, offer_ids)
       IN  /\ prices' = r.prices
           /\ chunks' = divide(r.prices, OzonPriceChunk)
    /\ sent' = 0
    /\ steps' = Append(steps, Step("create_prices"))
    /\ pc' = "upload_prices"
    /\ UNCHANGED << market, campaign, faulty, catalog, sheet, watch_remnants,
                    offer_ids, listed, page, product_list, stocks, log, failed,
                    reported, escaped, transform_vars >>

\* market.py:267 and 276: upload_prices is a coroutine function (async def,
\* market.py:206) and the call is not awaited: a coroutine object is made and
\* dropped, its body (listing, create_prices, update_price) never runs
MarketCallUploadPrices ==
    /\ pc = "call_upload_prices" /\ market = "yandex"
    /\ IF campaign = "fbs"
       THEN campaign' = "dbs" /\ pc' = "list"
       ELSE campaign' = campaign /\ pc' = "done"
    /\ UNCHANGED << market, faulty, catalog, sheet, watch_remnants, offer_ids,
                    listed, page, product_list, stocks, prices, chunks, sent,
                    log, steps, failed, reported, escaped, transform_vars >>

Next ==
    \/ Download
    \/ SellerListPage
    \/ MarketListPage
    \/ SellerCreateStocks
    \/ MarketCreateStocks
    \/ UploadChunk
    \/ UploadEnd
    \/ SellerCreatePrices
    \/ MarketCallUploadPrices

Spec == Init /\ [][Next]_vars

\* every request is answered without error; the interpreter keeps running
\* main until it returns
ReliableInit == MainInit /\ faulty = FALSE

ReliableSpec == ReliableInit /\ [][Next]_vars /\ WF_vars(Next)

-----------------------------------------------------------------------------
(* The transforms on their own: create_stocks and create_prices of either   *)
(* marketplace applied to any supplier sheet and any list of distinct       *)
(* offer ids.                                                               *)

SupplierCodes == {"A1", "B2", "Z9"}

QuantityCells == { Gt10, << "1" >>, << "5" >>, << "1", "2" >>, << >> }

\* every code with every quantity cell, and one row whose price has no digit
TransformRows ==
    { [code |-> c, quantity |-> q, price |-> PriceCell] :
          c \in SupplierCodes, q \in QuantityCells }
    \cup { [code |-> "A1", quantity |-> << "5" >>, price |-> << "r" >>] }

TransformInit ==
    /\ pc = "call"
    /\ market = "none"
    /\ campaign = "none"
    /\ faulty = FALSE
    /\ catalog = << >>
    /\ sheet \in SeqsUpTo(TransformRows, MaxRemnants)
    /\ watch_remnants = sheet
    /\ listed \in Catalogs
    /\ offer_ids = listed
    /\ page = 0
    /\ product_list = << >>
    /\ stocks = << >>
    /\ prices = << >>
    /\ chunks = << >>
    /\ sent = 0
    /\ log = << >>
    /\ steps = << >>
    /\ failed = FALSE
    /\ reported = ""
    /\ escaped = FALSE
    /\ lst = << >>
    /\ n = 1
    /\ price_text = << >>
    /\ converted = << >>
    /\ reconverted = << >>

transform_frame ==
    << faulty, catalog, sheet, watch_remnants, listed, page, product_list,
       chunks, sent, log, steps, reported, escaped, transform_vars >>

CallSellerCreateStocks ==
    /\ pc = "call"
    /\ LET r == seller_create_stocks(watch_remnants, offer_ids)
       IN  /\ offer_ids' = r.offer_ids
           /\ failed' = r.raised
           /\ stocks' = (IF r.raised THEN stocks ELSE r.stocks)
    /\ pc' = "create_stocks"
    /\ market' = "ozon"
    /\ campaign' = "ozon"
    /\ UNCHANGED << prices, transform_frame >>

CallMarketCreateStocks ==
    /\ pc = "call"
    /\ \E c \in {"fbs", "dbs"} :
         /\ campaign' = c
         /\ LET r == market_create_stocks(watch_remnants, offer_ids,
                                          WarehouseOf(c), Date)
            IN  /\ offer_ids' = r.offer_ids
                /\ failed' = r.raised
                /\ stocks' = (IF r.raised THEN stocks ELSE r.stocks)
    /\ pc' = "create_stocks"
    /\ market' = "yandex"
    /\ UNCHANGED << prices, transform_frame >>

CallSellerCreatePrices ==
    /\ pc = "call"
    /\ prices' = seller_create_prices(watch_remnants, offer_ids).prices
    /\ pc' = "create_prices"
    /\ market' = "ozon"
    /\ campaign' = "ozon"
    /\ UNCHANGED << offer_ids, stocks, failed, transform_frame >>

CallMarketCreatePrices ==
    /\ pc = "call"
    /\ LET r == market_create_prices(watch_remnants, offer_ids)
       IN  /\ failed' = r.raised
           /\ prices' = (IF r.raised THEN prices ELSE r.prices)
    /\ pc' = "create_prices"
    /\ market' = "yandex"
    /\ campaign' = "fbs"
    /\ UNCHANGED << offer_ids, stocks, transform_frame >>

TransformNext ==
    \/ CallSellerCreateStocks
    \/ CallMarketCreateStocks
    \/ CallSellerCreatePrices
    \/ CallMarketCreatePrices

TransformSpec == TransformInit /\ [][TransformNext]_vars

-----------------------------------------------------------------------------
(* divide on its own, followed by the upload loop of seller.upload_prices   *)
(* (seller.py:213-214): one call per chunk.                                 *)

DivideInit ==
    /\ pc = "divide"
    /\ market = "ozon"
    /\ campaign = "ozon"
    /\ faulty = FALSE
    /\ catalog = << >>
    /\ sheet = << >>
    /\ watch_remnants = << >>
    /\ listed = << >>
    /\ offer_ids = << >>
    /\ page = 0
    /\ product_list = << >>
    /\ stocks = << >>
    /\ prices = << >>
    /\ chunks = << >>
    /\ sent = 0
    /\ log = << >>
    /\ steps = << >>
    /\ failed = FALSE
    /\ reported = ""
    /\ escaped = FALSE
    /\ lst \in { [i \in 1..len |-> i] : len \in 0..MaxListLen }
    /\ n \in 1..MaxChunk
    /\ price_text = << >>
    /\ converted = << >>
    /\ reconverted = << >>

Divide ==
    /\ pc = "divide"
    /\ chunks' = divide(lst, n)
    /\ sent' = 0
    /\ pc' = "upload_prices"
    /\ UNCHANGED << market, campaign, faulty, catalog, sheet, watch_remnants,
                    offer_ids, listed, page, product_list, stocks, prices, log,
                    steps, failed, reported, escaped, transform_vars >>

DivideNext == Divide \/ UploadChunk \/ UploadEnd

DivideSpec == DivideInit /\ [][DivideNext]_vars

-----------------------------------------------------------------------------
(* price_conversion on its own, applied once and then to its own result.    *)

PriceAlphabet == {"5", "0", "'", ".", "r"}

PriceInit ==
    /\ pc = "price"
    /\ market = "none"
    /\ campaign = "none"
    /\ faulty = FALSE
    /\ catalog = << >>
    /\ sheet = << >>
    /\ watch_remnants = << >>
    /\ listed = << >>
    /\ offer_ids = << >>
    /\ page = 0
    /\ product_list = << >>
    /\ stocks = << >>
    /\ prices = << >>
    /\ chunks = << >>
    /\ sent = 0
    /\ log = << >>
    /\ steps = << >>
    /\ failed = FALSE
    /\ reported = ""
    /\ escaped = FALSE
    /\ lst = << >>
    /\ n = 1
    /\ price_text \in SeqsUpTo(PriceAlphabet, MaxPriceLen)
    /\ converted = << >>
    /\ reconverted = << >>

main_vars ==
    << market, campaign, faulty, catalog, sheet, watch_remnants, offer_ids,
       listed, page, product_list, stocks, prices, chunks, sent, log, steps,
       failed, reported, escaped, lst, n >>

Convert ==
    /\ pc = "price"
    /\ converted' = price_conversion(price_text)
    /\ pc' = "converted"
    /\ UNCHANGED << price_text, reconverted, main_vars >>

Reconvert ==
    /\ pc = "converted"
    /\ reconverted' = price_conversion(converted)
    /\ pc' = "reconverted"
    /\ UNCHANGED << price_text, converted, main_vars >>

PriceNext == Convert \/ Reconvert

PriceSpec == PriceInit /\ [][PriceNext]_vars

-----------------------------------------------------------------------------
(* Reading the results.                                                     *)

\* the offer id and the count of a stock record of the running marketplace
StockId(rec) == IF market = "ozon" THEN rec.offer_id ELSE rec.sku

StockCount(rec) == IF market = "ozon" THEN rec.stock ELSE rec.items[1].count

\* how many records of `stocks` carry the id
StockRecordsOf(id) ==
    Cardinality({ i \in 1..Len(stocks) : StockId(stocks[i]) = id })

InSheet(id) == \E i \in 1..Len(sheet) : sheet[i].code = id

CreateStocksReturned == pc = "create_stocks" /\ ~failed

\* the ids of a list that no supplier record carries, in the list's order
RECURSIVE Unmatched(_)
Unmatched(ids) ==
    IF ids = << >> THEN << >>
    ELSE IF InSheet(Head(ids)) THEN Unmatched(Tail(ids))
    ELSE << Head(ids) >> \o Unmatched(Tail(ids))

-----------------------------------------------------------------------------
(* Claims about the transforms (TransformSpec).                             *)

\* C1: the list create_stocks returns (Ozon and Yandex) holds every known
\* offer id exactly once and no other id, whatever the supplier records
\* (repeated and unknown codes included); an id no supplier record carries
\* has count 0.
C1_EveryOfferIdOnce ==
    CreateStocksReturned =>
        /\ \A id \in OfferIds \cup SupplierCodes :
               StockRecordsOf(id) = (IF Member(id, listed) THEN 1 ELSE 0)
        /\ Len(stocks) = Len(listed)
        /\ \A i \in 1..Len(stocks) :
               ~InSheet(StockId(stocks[i])) => StockCount(stocks[i]) = 0

\* create_stocks has returned for a sheet with a repeated code, an unknown
\* code and a known id that the sheet lacks
C1_Witness ==
    /\ CreateStocksReturned
    /\ \E i, j \in 1..Len(sheet) :
           i # j /\ sheet[i].code = sheet[j].code /\ Member(sheet[i].code, listed)
    /\ \E i \in 1..Len(listed) : ~InSheet(listed[i])
    /\ Len(stocks) >= 2

\* the count the quantity translation table gives a quantity cell
TableCount(quantity) ==
    IF quantity = << ">", "1", "0" >> THEN 100
    ELSE IF quantity = << "1" >> THEN 0
    ELSE DecimalValue(quantity, 0)

\* the supplier records create_stocks emits a record for: the code is in the
\* working list when the record is reached, i.e. it is a known id and no
\* earlier record has taken it
Emitting(i) ==
    /\ Member(sheet[i].code, listed)
    /\ \A j \in 1..(i - 1) : sheet[j].code # sheet[i].code

\* C4: for every supplier record create_stocks emits a stock record for, the
\* count is 100 for ">10", 0 for "1" and the integer value of the quantity
\* otherwise, in the Ozon and in the Yandex variant alike.
C4_QuantityTranslation ==
    CreateStocksReturned =>
        \A i \in 1..Len(sheet) :
            Emitting(i) =>
                \E k \in 1..Len(stocks) :
                    /\ StockId(stocks[k]) = sheet[i].code
                    /\ StockCount(stocks[k]) = TableCount(sheet[i].quantity)

\* create_stocks of either marketplace has translated ">10", "1" and a
\* plain number
C4_Witness ==
    /\ CreateStocksReturned
    /\ Len(sheet) = 2
    /\ Emitting(1) /\ Emitting(2)
    /\ sheet[1].quantity = << "1" >>
    /\ sheet[2].quantity \in { << ">", "1", "0" >>, << "1", "2" >> }
    /\ StockCount(stocks[1]) = 0
    /\ StockCount(stocks[2]) \in {100, 12}

\* C10: when create_stocks returns, the caller's list holds exactly the offer
\* ids no supplier record matched, in their original order; create_prices
\* leaves the list as it was; neither changes the supplier records.
C10_WorkingListConsumed ==
    /\ CreateStocksReturned => offer_ids = Unmatched(listed)
    /\ pc = "create_prices" => offer_ids = listed
    /\ pc \in {"create_stocks", "create_prices"} => watch_remnants = sheet

\* create_stocks has returned having removed the middle one of three ids
C10_Witness ==
    /\ CreateStocksReturned
    /\ Len(listed) = 3
    /\ InSheet(listed[2])
    /\ offer_ids = << listed[1], listed[3] >>

\* create_prices has returned with a non-empty result
C10_PricesWitness == pc = "create_prices" /\ ~failed /\ Len(prices) >= 1

-----------------------------------------------------------------------------
(* Claims about divide (DivideSpec).                                        *)

RECURSIVE Concat(_)
Concat(parts) ==
    IF parts = << >> THEN << >> ELSE Head(parts) \o Concat(Tail(parts))

Sizes(parts) == [c \in 1..Len(parts) |-> Len(parts[c])]

CeilDiv(a, b) == (a + b - 1) \div b

UploadCalls == Cardinality({ i \in 1..Len(log) : log[i].kind = "prices" })

\* C5: divide(lst, n) for n >= 1 yields ceil(len(lst)/n) chunks whose
\* concatenation is lst; every chunk but the last has n elements, the last
\* has 1..n; 2500 items by 1000 give sizes 1000, 1000, 500; an empty list
\* yields no chunk and no upload call is issued for it.
C5_DivideChunks ==
    /\ pc # "divide" =>
           /\ Len(chunks) = CeilDiv(Len(lst), n)
           /\ Concat(chunks) = lst
           /\ \A c \in 1..Len(chunks) :
                  IF c < Len(chunks) THEN Len(chunks[c]) = n
                  ELSE Len(chunks[c]) \in 1..n
           /\ lst = << >> => chunks = << >>
    /\ pc = "done" =>
           /\ UploadCalls = Len(chunks)
           /\ lst = << >> => log = << >>
    /\ Sizes(divide([i \in 1..2500 |-> i], 1000)) = << 1000, 1000, 500 >>

\* a list whose length is no multiple of n has been cut into three chunks or
\* more and every chunk has been uploaded
C5_Witness ==
    /\ pc = "done"
    /\ Len(chunks) >= 3
    /\ Len(chunks[Len(chunks)]) < n
    /\ UploadCalls = Len(chunks)

\* the upload loop has ended for an empty list without a call
C5_EmptyWitness == pc = "done" /\ lst = << >> /\ log = << >>

-----------------------------------------------------------------------------
(* Claims about price_conversion (PriceSpec).                               *)

\* the position of the first "." of a text, Len + 1 when it has none
FirstDot(text) ==
    IF \E i \in 1..Len(text) : text[i] = "."
    THEN CHOOSE i \in 1..Len(text) :
             text[i] = "." /\ \A j \in 1..(i - 1) : text[j] # "."
    ELSE Len(text) + 1

IsDigit(c) == c \in Digits

DigitsBeforeDot(text) ==
    SelectSeq(SubSeq(text, 1, FirstDot(text) - 1), IsDigit)

\* the example of the docstring, seller.py:182, with the Cyrillic letters of
\* the currency written in Latin ones
PriceExample ==
    << "5", "'", "9", "9", "0", ".", "0", "0", " ", "r", "u", "b", "." >>

\* C6: price_conversion(s) is the digits of the part of s before its first
\* ".", in order ("5'990.00 rub." gives "5990"); it is the identity on
\* digit-only texts, and applying it twice gives what applying it once gives.
C6_PriceConversion ==
    /\ pc \in {"converted", "reconverted"} =>
           /\ converted = DigitsBeforeDot(price_text)
           /\ (\A i \in 1..Len(price_text) : IsDigit(price_text[i]))
                  => converted = price_text
    /\ pc = "reconverted" => reconverted = converted
    /\ price_conversion(PriceExample) = << "5", "9", "9", "0" >>

\* a text with digits on both sides of its decimal point and a separator
\* among them has been converted, and the result converted again
C6_Witness ==
    /\ pc = "reconverted"
    /\ Len(price_text) = 4
    /\ FirstDot(price_text) = 3
    /\ IsDigit(price_text[4])
    /\ Len(converted) = 1
    /\ reconverted = converted

-----------------------------------------------------------------------------
(* Reading a run of main.                                                   *)

Configs == IF market = "ozon" THEN {"ozon"} ELSE {"fbs", "dbs"}

RECURSIVE StepsOf(_, _)
\* the names of the steps completed for a configuration, in order
StepsOf(done, c) ==
    IF done = << >> THEN << >>
    ELSE IF Head(done).campaign = c
         THEN << Head(done).step >> \o StepsOf(Tail(done), c)
         ELSE StepsOf(Tail(done), c)

RECURSIVE ArgsOf(_, _, _)
\* the cursors or chunk numbers of the requests of a kind for a
\* configuration, in order
ArgsOf(requests, c, kind) ==
    IF requests = << >> THEN << >>
    ELSE IF Head(requests).campaign = c /\ Head(requests).kind = kind
         THEN << Head(requests).arg >> \o ArgsOf(Tail(requests), c, kind)
         ELSE ArgsOf(Tail(requests), c, kind)

FiveSteps ==
    << "list", "create_stocks", "upload_stocks", "create_prices",
       "upload_prices" >>

CompletedWithoutException == pc = "done" /\ ~failed

\* the chunks of the price list of a configuration: for Ozon the list main
\* built, for Yandex the one upload_prices builds from a fresh listing
PriceChunksDue(c) ==
    IF c = "ozon" THEN divide(prices, OzonPriceChunk)
    ELSE divide(market_create_prices(watch_remnants, catalog).prices,
                MarketPriceChunk)

-----------------------------------------------------------------------------
(* Claims about a run of main (Spec).                                       *)

\* C2: in a run of main in which nothing fails, for every configuration the
\* five steps are executed in order (list, build stocks, upload stocks, build
\* prices, upload prices) and a price-upload call is issued for every chunk
\* of the price list before main returns.
C2_FiveStepsPerConfiguration ==
    CompletedWithoutException =>
        \A c \in Configs :
            /\ StepsOf(steps, c) = FiveSteps
            /\ Len(ArgsOf(log, c, "prices")) = Len(PriceChunksDue(c))

\* C3: in a run of seller.main in which nothing fails, the price records
\* handed to update_price hold a record for every supplier record whose code
\* is one of the listed offer ids.
C3_OzonPricesCoverListedCodes ==
    (market = "ozon" /\ CompletedWithoutException) =>
        \A i \in 1..Len(watch_remnants) :
            Member(watch_remnants[i].code, listed) =>
                \E k \in 1..Len(log) :
                    /\ log[k].kind = "prices"
                    /\ \E m \in 1..Len(log[k].body) :
                           log[k].body[m].offer_id = watch_remnants[i].code

\* C8: whichever step raises (supplier download, listing, a transform, an
\* upload), main of either marketplace catches the exception, reports it and
\* returns normally; none escapes main.
C8_NoExceptionEscapesMain ==
    failed => (pc = "done" /\ ~escaped /\ reported # "")

\* two requests are the same request when they agree on everything but the
\* answer
SameRequest(a, b) ==
    a.campaign = b.campaign /\ a.kind = b.kind /\ a.arg = b.arg

IsPrefix(a, b) == Len(a) <= Len(b) /\ SubSeq(b, 1, Len(a)) = a

\* C9: within a run of main chunks are uploaded one at a time in list order
\* and every request is issued at most once; once a request has failed no
\* further request is issued, and what was sent before stays sent.
C9_SequentialNoRetry ==
    [][ /\ IsPrefix(log, log')
        /\ Len(log') <= Len(log) + 1
        /\ failed => log' = log
        /\ \A i, j \in 1..Len(log') : SameRequest(log'[i], log'[j]) => i = j
        /\ \A c \in Configs, kind \in {"stocks", "prices"} :
               LET sentArgs == ArgsOf(log', c, kind)
               IN  \A k \in 1..Len(sentArgs) : sentArgs[k] = k
        /\ (Len(log') > Len(log) /\ log'[Len(log')].kind \in {"stocks", "prices"})
               => log'[Len(log')].body = chunks[log'[Len(log')].arg]
      ]_vars

\* the second of two stock chunks was refused after the first was accepted:
\* main has returned, the first chunk stays uploaded, nothing was sent after
C9_Witness ==
    /\ pc = "done" /\ failed
    /\ Len(chunks) >= 2
    /\ sent = 1
    /\ log[Len(log)].kind = "stocks"
    /\ log[Len(log)].arg = 2
    /\ log[Len(log)].outcome # "ok"
    /\ log[Len(log) - 1].outcome = "ok"

-----------------------------------------------------------------------------
(* Claims about the listing (ReliableSpec).                                 *)

ListingDone(c) ==
    \E i \in 1..Len(steps) : steps[i] = [campaign |-> c, step |-> "list"]

\* the cursors of the listing requests of a configuration follow each other
\* as the responses return them; a finished listing stopped at the first
\* response that signalled the end and not before
CursorChain(c) ==
    LET cursors == ArgsOf(log, c, "list")
    IN  /\ cursors # << >> => cursors[1] = 0
        /\ \A k \in 1..(Len(cursors) - 1) :
               /\ cursors[k + 1] = cursors[k] + PageLimit
               /\ cursors[k] + PageLimit < Len(catalog)
        /\ ListingDone(c) =>
               /\ cursors # << >>
               /\ cursors[Len(cursors)] + PageLimit >= Len(catalog)

\* C7: against a server that serves a finite catalog page by page without
\* error, get_offer_ids terminates; Yandex stops at the first response with
\* an empty next-page token, Ozon at the first response after which the
\* accumulated count equals the reported total; every following page is
\* requested with the cursor the previous response returned.
C7_ListingTerminates ==
    /\ [](\A c \in Configs : CursorChain(c))
    /\ (pc = "list") ~> (pc # "list")

\* a listing of more than one page has returned the whole catalog
C7_Witness ==
    /\ ListingDone(campaign)
    /\ Len(ArgsOf(log, campaign, "list")) >= 2
    /\ listed = catalog

-----------------------------------------------------------------------------
(* The order of the stock list (TransformSpec).                             *)

\* a stock record reduced to its offer id and its count
IdCount(id, count) == [id |-> id, count |-> count]

StocksAsIdCounts(records) ==
    [k \in 1..Len(records) |->
         IdCount(StockId(records[k]), StockCount(records[k]))]

RECURSIVE MatchedFrom(_)
\* one entry per supplier record from row i on that is the first to carry a
\* known code, in sheet order, with the count of that row
MatchedFrom(i) ==
    IF i > Len(sheet) THEN << >>
    ELSE IF Emitting(i)
         THEN << IdCount(sheet[i].code, TableCount(sheet[i].quantity)) >>
                  \o MatchedFrom(i + 1)
         ELSE MatchedFrom(i + 1)

ZeroesFor(ids) == [k \in 1..Len(ids) |-> IdCount(ids[k], 0)]

\* C11: the list create_stocks returns is ordered: first one record per
\* matched offer id in the order of the first supplier record carrying the
\* code (a later record with the same code is ignored and does not change the
\* count), then one zero-count record per unmatched offer id in listing
\* order; [{A1, ">10"}] with [A1, B2] gives [{A1, 100}, {B2, 0}].
C11_StockListOrder ==
    /\ CreateStocksReturned =>
           StocksAsIdCounts(stocks) =
               MatchedFrom(1) \o ZeroesFor(Unmatched(listed))
    /\ seller_create_stocks(
           << [code |-> "A1", quantity |-> Gt10, price |-> PriceCell] >>,
           << "A1", "B2" >>).stocks
         = << [offer_id |-> "A1", stock |-> 100],
              [offer_id |-> "B2", stock |-> 0] >>

\* create_stocks has returned for a sheet whose two rows carry the same known
\* code with different quantities, and for a listing that holds an unmatched
\* id in front of the matched one: the first row's count leads the list
C11_Witness ==
    /\ CreateStocksReturned
    /\ Len(sheet) = 2
    /\ sheet[1].code = sheet[2].code
    /\ TableCount(sheet[1].quantity) # TableCount(sheet[2].quantity)
    /\ Len(listed) >= 2
    /\ listed[2] = sheet[1].code
    /\ ~InSheet(listed[1])
    /\ StockId(stocks[1]) = sheet[1].code
    /\ StockCount(stocks[1]) = TableCount(sheet[1].quantity)
    /\ StockId(stocks[2]) = listed[1]

====
